---- MODULE Spec2Model ----
(***************************************************************************)
(* A model of main.cpp: the thread_pool (schedule, run_thread, the         *)
(* destructor), the task<T> state with its promise/shared_future result    *)
(* slot, the coroutine promise (get_return_object, initial_suspend,        *)
(* return_value, unhandled_exception, final_suspend) and the task bodies   *)
(* async_add and async_fib.                                                *)
(***************************************************************************)
EXTENDS Integers, Sequences, FiniteSets, TLC

\* ---------------------------------------------------------------- bounds
\* Tasks created in one run.
MaxTasks == 2

\* The values of concurrency_level the pool is instantiated with.
PoolSizes == {1, 2}

\* Worker threads are 1..N, N being the pool's concurrency_level.
Workers == UNION {1..n : n \in PoolSizes}
\* The thread outside the pool that calls the coroutines (main).
Callers == {Cardinality(Workers) + 1}
\* Another thread outside the pool, handed copies of the task handles.
Readers == {Cardinality(Workers) + 2}
Threads == Workers \cup Callers \cup Readers
TaskIds == 1..MaxTasks
\* Storage for task states: MaxTasks of them, and enough for every worker to
\* run a body that has a nested task.
StateIds == TaskIds \cup 1..(2 * Cardinality(Workers))

\* Inputs of the task bodies.
AddInputs == {<<3, 4>>, <<1, 1>>}
FibInputs == {2, 3, 4}

\* ------------------------------------------------------- result outcomes
None == <<"none">>
Val(v) == <<"val", v>>
Exc(t) == <<"exc", t>>

VARIABLES
    N,          \* concurrency_level: number of worker threads of the pool
    pc,         \* pc[w]: where worker w is in run_thread
    next,       \* next[w]: the item worker w has dequeued (0: none)
    stop,       \* stop[w]: request_stop() was called on worker w's jthread
    mutex,      \* holder of mutex_ (0: free)
    queue,      \* queue_
    cpc,        \* cpc[th]: where thread th is in schedule()
    ctask,      \* ctask[th]: the task thread th is creating (0: none)
    tdpc,       \* where ~thread_pool is
    tdi,        \* the thread ~thread_pool is at
    ntasks,     \* number of tasks created so far
    kind,       \* kind[t]: the body of task t
    arg,        \* arg[t]: the inputs of task t's body
    parent,     \* parent[t]: the task whose body created t (0: a caller did)
    handle,     \* handle[t]: state::handle_
    slot,       \* slot[t]: state::result_ / shared_future_
    handles,    \* handles[t]: the threads that own a task<T> object of task t
    fib,        \* fib[t]: the locals a, b, i, c of an async_fib body
    execLog,    \* execLog[t]: the workers that called execute() on t, in order
    pushes,     \* pushes[t]: times t was pushed to queue_
    writes,     \* writes[t]: the writes made to t's result slot, in order
    seen,       \* seen[t]: <<thread, outcome>> of every completed retrieval
    before,     \* before[t]: tasks whose schedule() had returned when t's began
    nullResume, \* execute() was called on a state whose handle_ is null
    assertFailed, \* the assert in get_state failed
    out         \* the results test_async_fib has printed, in order

vars == <<N, pc, next, stop, mutex, queue, cpc, ctask, tdpc, tdi, ntasks, kind,
          arg, parent, handle, slot, handles, fib, execLog, pushes, writes,
          seen, before, nullResume, assertFailed, out>>

poolVars == <<pc, next, stop, mutex, queue>>
tdVars == <<tdpc, tdi>>
taskVars == <<ntasks, kind, arg, parent, handle, fib, before>>

Live == 1..N

NoFib == [a |-> 0, b |-> 0, i |-> 0, c |-> 0]

Init ==
    /\ N \in PoolSizes
    /\ pc = [w \in Workers |-> IF w <= N THEN "lock" ELSE "absent"]
    /\ next = [w \in Workers |-> 0]
    /\ stop = [w \in Workers |-> FALSE]
    /\ mutex = 0
    /\ queue = <<>>
    /\ cpc = [th \in Threads |-> "idle"]
    /\ ctask = [th \in Threads |-> 0]
    /\ tdpc = "none"
    /\ tdi = 0
    /\ ntasks = 0
    /\ kind = [t \in StateIds |-> "none"]
    /\ arg = [t \in StateIds |-> <<0, 0>>]
    /\ parent = [t \in StateIds |-> 0]
    /\ handle = [t \in StateIds |-> "none"]
    /\ slot = [t \in StateIds |-> None]
    /\ handles = [t \in StateIds |-> {}]
    /\ fib = [t \in StateIds |-> NoFib]
    /\ execLog = [t \in StateIds |-> <<>>]
    /\ pushes = [t \in StateIds |-> 0]
    /\ writes = [t \in StateIds |-> <<>>]
    /\ seen = [t \in StateIds |-> {}]
    /\ before = [t \in StateIds |-> {}]
    /\ nullResume = FALSE
    /\ assertFailed = FALSE
    /\ out = <<>>


\* ------------------------------------------------------------ primitives
\* Faulty variants of the queue operations: front() answers the newest item; pop() is
\* left out.
Back(q) == q[Len(q)]
PopKeep(q) == q

\* queue_.front() and queue_.pop()
Front(q) == Head(q)
Pop(q) == Tail(q)

\* Faulty variant: schedule() without the notify_one().
NotifyNone(p) == {p}

\* cva_.notify_one(): one waiting worker, if there is any, is woken.
NotifyOne(p) ==
    IF \E w \in Workers : p[w] = "waiting"
    THEN {[p EXCEPT ![w] = "woken"] : w \in {v \in Workers : p[v] = "waiting"}}
    ELSE {p}

\* cva_.notify_all(), called by the stop_callback that wait(lock, stoken, pred)
\* registers.
NotifyAll(p) == [w \in Workers |-> IF p[w] = "waiting" THEN "woken" ELSE p[w]]

\* The predicate handed to cva_.wait.
Pred == queue # <<>>

\* std::promise: set_value / set_exception store into an empty shared state;
\* on a satisfied one they throw and leave it as it is.
PromiseSet(s, o) == IF s = None THEN o ELSE s

\* Faulty variants of the retrieval: get() does not wait for the slot; get() moves the
\* stored value out, as std::future::get() does.
ReadyAlways(s) == TRUE
AfterGetConsumed(s) == <<"val", 0>>

\* shared_future::get(): blocks until the shared state is ready, then yields
\* the stored outcome, which stays in place.
Ready(s) == s # None
FutureGet(s) == s
AfterGet(s) == s

\* Faulty variant: only the task<T> objects own the state; the queue entry
\* and the worker's `next` are not counted.
AliveByHandle(t) == handles[t] # {}

\* A shared_ptr to task t's state exists: a task<T> object, the argument of
\* schedule(), an entry of queue_ or a worker's `next`.
InQueue(t) == \E k \in 1..Len(queue) : queue[k] = t
Alive(t) ==
    \/ handles[t] # {}
    \/ InQueue(t)
    \/ \E w \in Workers : next[w] = t
    \/ \E th \in Threads : ctask[th] = t /\ cpc[th] \in {"lock", "push"}

\* coroutine_promise::get_state(): weak_ptr::lock() and the assert.
GetStateFails(t) == ~Alive(t)

\* -------------------------------------------------- thread_pool::schedule
\* line 85: await_suspend looks the state up with get_state() and passes it
\* to schedule(); line 37: std::lock_guard lock{ mutex_ }
SchedLock(th) ==
    /\ cpc[th] = "lock"
    /\ mutex = 0
    /\ assertFailed' = (assertFailed \/ GetStateFails(ctask[th]))
    /\ mutex' = th
    /\ cpc' = [cpc EXCEPT ![th] = "push"]
    /\ UNCHANGED <<N, out, pc, next, stop, queue, ctask, tdVars, taskVars,
                   slot, handles, execLog, pushes, writes, seen, nullResume>>

\* lines 38-39: queue_.push(std::move(task)) and the end of the lock's scope
SchedPush(th) ==
    /\ cpc[th] = "push"
    /\ mutex = th
    /\ queue' = Append(queue, ctask[th])
    /\ pushes' = [pushes EXCEPT ![ctask[th]] = @ + 1]
    /\ mutex' = 0
    /\ cpc' = [cpc EXCEPT ![th] = "notify"]
    /\ UNCHANGED <<N, out, pc, next, stop, ctask, tdVars, taskVars, slot,
                   handles, execLog, writes, seen, nullResume, assertFailed>>

\* line 40: cva_.notify_one(); schedule(), await_suspend and the call of the
\* coroutine return; in async_fib the body goes on to line 178.
SchedNotify(th) ==
    /\ cpc[th] = "notify"
    /\ \E p \in NotifyOne(pc) :
          pc' = IF th \in Workers THEN [p EXCEPT ![th] = "get"] ELSE p
    /\ cpc' = [cpc EXCEPT ![th] = "idle"]
    /\ ctask' = [ctask EXCEPT ![th] = 0]
    /\ UNCHANGED <<N, out, next, stop, mutex, queue, tdVars, taskVars, slot,
                   handles, execLog, pushes, writes, seen, nullResume,
                   assertFailed>>

\* ------------------------------------------------ thread_pool::run_thread
\* lines 54-55, 63: the mutex is taken and queue_.empty() is false
LockTake(w) ==
    /\ pc[w] = "lock"
    /\ mutex = 0
    /\ queue # <<>>
    /\ mutex' = w
    /\ pc' = [pc EXCEPT ![w] = "take"]
    /\ UNCHANGED <<N, out, next, stop, queue, cpc, ctask, tdVars, taskVars,
                   slot, handles, execLog, pushes, writes, seen, nullResume,
                   assertFailed>>

\* lines 54-56: the mutex is taken, the queue is empty and no stop is
\* requested: cva_.wait releases the mutex and blocks.
LockWait(w) ==
    /\ pc[w] = "lock"
    /\ mutex = 0
    /\ queue = <<>>
    /\ ~stop[w]
    /\ pc' = [pc EXCEPT ![w] = "waiting"]
    /\ UNCHANGED <<N, out, next, stop, mutex, queue, cpc, ctask, tdVars,
                   taskVars, slot, handles, execLog, pushes, writes, seen,
                   nullResume, assertFailed>>

\* lines 54-56: the mutex is taken, the queue is empty and stop is already
\* requested: cva_.wait returns pred() at once, the mutex still held.
LockStopped(w) ==
    /\ pc[w] = "lock"
    /\ mutex = 0
    /\ queue = <<>>
    /\ stop[w]
    /\ mutex' = w
    /\ pc' = [pc EXCEPT ![w] = "stopchk"]
    /\ UNCHANGED <<N, out, next, stop, queue, cpc, ctask, tdVars, taskVars,
                   slot, handles, execLog, pushes, writes, seen, nullResume,
                   assertFailed>>

\* A condition variable may wake without a notification.
Spurious(w) ==
    /\ pc[w] = "waiting"
    /\ pc' = [pc EXCEPT ![w] = "woken"]
    /\ UNCHANGED <<N, out, next, stop, mutex, queue, cpc, ctask, tdVars,
                   taskVars, slot, handles, execLog, pushes, writes, seen,
                   nullResume, assertFailed>>

\* Faulty variant: cva_.wait returns on any wake-up, without testing the
\* predicate or the stop token.
WakeReturnAlways(w) ==
    /\ pc[w] = "woken"
    /\ mutex = 0
    /\ mutex' = w
    /\ pc' = [pc EXCEPT ![w] = "stopchk"]
    /\ UNCHANGED <<N, out, next, stop, queue, cpc, ctask, tdVars, taskVars,
                   slot, handles, execLog, pushes, writes, seen, nullResume,
                   assertFailed>>

\* line 56: a woken worker takes the mutex again; stop is requested or the
\* predicate holds, and cva_.wait returns.
WakeReturn(w) ==
    /\ pc[w] = "woken"
    /\ mutex = 0
    /\ stop[w] \/ Pred
    /\ mutex' = w
    /\ pc' = [pc EXCEPT ![w] = "stopchk"]
    /\ UNCHANGED <<N, out, next, stop, queue, cpc, ctask, tdVars, taskVars,
                   slot, handles, execLog, pushes, writes, seen, nullResume,
                   assertFailed>>

\* line 56: a woken worker takes the mutex again, finds neither a stop nor an
\* item, and blocks again.
WakeRewait(w) ==
    /\ pc[w] = "woken"
    /\ mutex = 0
    /\ ~stop[w]
    /\ ~Pred
    /\ pc' = [pc EXCEPT ![w] = "waiting"]
    /\ UNCHANGED <<N, out, next, stop, mutex, queue, cpc, ctask, tdVars,
                   taskVars, slot, handles, execLog, pushes, writes, seen,
                   nullResume, assertFailed>>

\* Faulty variant: the worker leaves the loop after the wait whether or not
\* stop is requested.
BreakUnasked(w) ==
    /\ pc[w] = "stopchk"
    /\ mutex' = 0
    /\ pc' = [pc EXCEPT ![w] = "exited"]
    /\ UNCHANGED <<N, out, next, stop, queue, cpc, ctask, tdVars, taskVars,
                   slot, handles, execLog, pushes, writes, seen, nullResume,
                   assertFailed>>

\* lines 59-60: stop_requested() is true: break; the lock's destructor
\* releases the mutex and run_thread returns.
Break(w) ==
    /\ pc[w] = "stopchk"
    /\ stop[w]
    /\ mutex' = 0
    /\ pc' = [pc EXCEPT ![w] = "exited"]
    /\ UNCHANGED <<N, out, next, stop, queue, cpc, ctask, tdVars, taskVars,
                   slot, handles, execLog, pushes, writes, seen, nullResume,
                   assertFailed>>

\* line 59: stop_requested() is false
NoStop(w) ==
    /\ pc[w] = "stopchk"
    /\ ~stop[w]
    /\ pc' = [pc EXCEPT ![w] = "take"]
    /\ UNCHANGED <<N, out, next, stop, mutex, queue, cpc, ctask, tdVars,
                   taskVars, slot, handles, execLog, pushes, writes, seen,
                   nullResume, assertFailed>>

\* Faulty variant: the item is executed with the mutex still held.
TakeLocked(w) ==
    /\ pc[w] = "take"
    /\ queue # <<>>
    /\ next' = [next EXCEPT ![w] = Front(queue)]
    /\ queue' = Pop(queue)
    /\ pc' = [pc EXCEPT ![w] = "exec"]
    /\ UNCHANGED <<N, out, stop, mutex, cpc, ctask, tdVars, taskVars, slot,
                   handles, execLog, pushes, writes, seen, nullResume,
                   assertFailed>>

\* lines 63-65: next = front(), pop(), lock.unlock()
Take(w) ==
    /\ pc[w] = "take"
    /\ queue # <<>>
    /\ next' = [next EXCEPT ![w] = Front(queue)]
    /\ queue' = Pop(queue)
    /\ mutex' = 0
    /\ pc' = [pc EXCEPT ![w] = "exec"]
    /\ UNCHANGED <<N, out, stop, cpc, ctask, tdVars, taskVars, slot, handles,
                   execLog, pushes, writes, seen, nullResume, assertFailed>>

\* lines 66, 114-116: next->execute() resumes the coroutine
Execute(w) ==
    /\ pc[w] = "exec"
    /\ execLog' = [execLog EXCEPT ![next[w]] = Append(@, w)]
    /\ nullResume' = (nullResume \/ handle[next[w]] = "null")
    /\ pc' = [pc EXCEPT ![w] = "body"]
    /\ UNCHANGED <<N, out, next, stop, mutex, queue, cpc, ctask, tdVars,
                   taskVars, slot, handles, pushes, writes, seen,
                   assertFailed>>


\* ------------------------------------------------------- creating a task
\* schedule() has returned for task t (the coroutine's caller has its handle).
SchedDone(t) == kind[t] # "none" /\ \A th \in Threads : ctask[th] # t

\* Nested async_add tasks an async_fib(n) body creates: n - 2 loop rounds.
Rounds(n) == IF n > 2 THEN n - 2 ELSE 0

\* Nested tasks the running async_fib bodies have still to create.
RECURSIVE Outstanding(_)
Outstanding(t) ==
    IF t = 0 THEN 0
    ELSE Outstanding(t - 1)
         + (IF kind[t] = "fib"
            THEN Rounds(arg[t][1]) - fib[t].i - (IF fib[t].c # 0 THEN 1 ELSE 0)
            ELSE 0)

\* Faulty variant: initial_suspend does not hand the state to the pool.
NewTaskUnscheduled(th, t, k, in, par) ==
    /\ ntasks' = t
    /\ kind' = [kind EXCEPT ![t] = k]
    /\ arg' = [arg EXCEPT ![t] = in]
    /\ parent' = [parent EXCEPT ![t] = par]
    /\ handle' = [handle EXCEPT ![t] = "valid"]
    /\ handles' = [handles EXCEPT ![t] = {th}]
    /\ before' = [before EXCEPT ![t] = {u \in 1..ntasks : SchedDone(u)}]
    /\ UNCHANGED <<cpc, ctask>>

\* Calling a coroutine: the promise is built, get_return_object makes the state
\* and the task<T> object (lines 133-137, 101-103, 110-113), initial_suspend
\* returns the task_scheduler and await_suspend calls schedule() with
\* get_state() (lines 138-140, 84-86).
NewTask(th, t, k, in, par) ==
    /\ ntasks' = t
    /\ kind' = [kind EXCEPT ![t] = k]
    /\ arg' = [arg EXCEPT ![t] = in]
    /\ parent' = [parent EXCEPT ![t] = par]
    /\ handle' = [handle EXCEPT ![t] = "valid"]
    /\ handles' = [handles EXCEPT ![t] = {th}]
    /\ before' = [before EXCEPT ![t] = {u \in 1..ntasks : SchedDone(u)}]
    /\ cpc' = [cpc EXCEPT ![th] = "lock"]
    /\ ctask' = [ctask EXCEPT ![th] = t]

CanCreate(c, extra) ==
    /\ cpc[c] = "idle"
    /\ tdpc = "none"
    /\ ntasks + Outstanding(ntasks) + 1 + extra <= MaxTasks

\* A caller calls async_add(a, b).
CreateAdd(c, in) ==
    /\ CanCreate(c, 0)
    /\ NewTask(c, ntasks + 1, "add", in, 0)
    /\ UNCHANGED <<N, out, poolVars, tdVars, slot, fib, execLog, pushes,
                   writes, seen, nullResume, assertFailed>>

\* A caller calls async_fib(n).
CreateFib(c, n) ==
    /\ CanCreate(c, Rounds(n))
    /\ NewTask(c, ntasks + 1, "fib", <<n, 0>>, 0)
    /\ UNCHANGED <<N, out, poolVars, tdVars, slot, fib, execLog, pushes,
                   writes, seen, nullResume, assertFailed>>

\* A caller calls async_fib(n) while there is storage for the task and for
\* the nested tasks of the bodies that run.
CreateNested(c, n) ==
    /\ cpc[c] = "idle"
    /\ tdpc = "none"
    /\ ntasks + Outstanding(ntasks) + 1 + Rounds(n) <= Cardinality(StateIds)
    /\ NewTask(c, ntasks + 1, "fib", <<n, 0>>, 0)
    /\ UNCHANGED <<N, out, poolVars, tdVars, slot, fib, execLog, pushes,
                   writes, seen, nullResume, assertFailed>>

\* A caller calls a task<T> coroutine whose body throws.
CreateRaise(c) ==
    /\ CanCreate(c, 0)
    /\ NewTask(c, ntasks + 1, "raise", <<0, 0>>, 0)
    /\ UNCHANGED <<N, out, poolVars, tdVars, slot, fib, execLog, pushes,
                   writes, seen, nullResume, assertFailed>>

\* ------------------------------------------------------- the task bodies
\* Faulty variant: the completion writes the slot a second time.
CompleteTwice(w, t, o) ==
    /\ slot' = [slot EXCEPT ![t] = PromiseSet(PromiseSet(@, o), Exc(t))]
    /\ writes' = [writes EXCEPT ![t] = Append(Append(@, o), Exc(t))]
    /\ assertFailed' = (assertFailed \/ GetStateFails(t))
    /\ pc' = [pc EXCEPT ![w] = "final"]

\* return_value / unhandled_exception on task t with outcome o (lines 145-150,
\* 120-122), then on to final_suspend.
Complete(w, t, o) ==
    /\ slot' = [slot EXCEPT ![t] = PromiseSet(@, o)]
    /\ writes' = [writes EXCEPT ![t] = Append(@, o)]
    /\ assertFailed' = (assertFailed \/ GetStateFails(t))
    /\ pc' = [pc EXCEPT ![w] = "final"]

\* Faulty variant: async_add returns a * b.
BodyAddWrong(w) ==
    /\ pc[w] = "body"
    /\ kind[next[w]] = "add"
    /\ slot' = [slot EXCEPT ![next[w]] =
                   PromiseSet(@, Val(arg[next[w]][1] * arg[next[w]][2]))]
    /\ writes' = [writes EXCEPT ![next[w]] =
                     Append(@, Val(arg[next[w]][1] * arg[next[w]][2]))]
    /\ assertFailed' = (assertFailed \/ GetStateFails(next[w]))
    /\ pc' = [pc EXCEPT ![w] = "final"]
    /\ UNCHANGED <<N, out, next, stop, mutex, queue, cpc, ctask, tdVars,
                   taskVars, handles, execLog, pushes, seen, nullResume>>

\* async_add, lines 158-162: co_return a + b
BodyAdd(w) ==
    /\ pc[w] = "body"
    /\ kind[next[w]] = "add"
    /\ Complete(w, next[w], Val(arg[next[w]][1] + arg[next[w]][2]))
    /\ UNCHANGED <<N, out, next, stop, mutex, queue, cpc, ctask, tdVars,
                   taskVars, handles, execLog, pushes, seen, nullResume>>

\* Faulty variant: the failure is not caught by the promise; it leaves execute() and
\* ends the worker's loop.
BodyRaiseEscapes(w) ==
    /\ pc[w] = "body"
    /\ kind[next[w]] = "raise"
    /\ pc' = [pc EXCEPT ![w] = "exited"]
    /\ next' = [next EXCEPT ![w] = 0]
    /\ UNCHANGED <<N, out, stop, mutex, queue, cpc, ctask, tdVars, taskVars,
                   slot, handles, execLog, pushes, writes, seen, nullResume,
                   assertFailed>>

\* A body that throws: unhandled_exception stores current_exception().
BodyRaise(w) ==
    /\ pc[w] = "body"
    /\ kind[next[w]] = "raise"
    /\ Complete(w, next[w], Exc(next[w]))
    /\ UNCHANGED <<N, out, next, stop, mutex, queue, cpc, ctask, tdVars,
                   taskVars, handles, execLog, pushes, seen, nullResume>>

\* async_fib, lines 168-170: n <= 2: co_return 1
FibBase(w) ==
    /\ pc[w] = "body"
    /\ kind[next[w]] = "fib"
    /\ arg[next[w]][1] <= 2
    /\ Complete(w, next[w], Val(1))
    /\ UNCHANGED <<N, out, next, stop, mutex, queue, cpc, ctask, tdVars,
                   taskVars, handles, execLog, pushes, seen, nullResume>>

\* async_fib, lines 172-176: a = 1, b = 1, i = 0
FibInit(w) ==
    /\ pc[w] = "body"
    /\ kind[next[w]] = "fib"
    /\ arg[next[w]][1] > 2
    /\ fib' = [fib EXCEPT ![next[w]] = [a |-> 1, b |-> 1, i |-> 0, c |-> 0]]
    /\ pc' = [pc EXCEPT ![w] = "loop"]
    /\ UNCHANGED <<N, out, next, stop, mutex, queue, cpc, ctask, tdVars,
                   ntasks, kind, arg, parent, handle, before, slot, handles,
                   execLog, pushes, writes, seen, nullResume, assertFailed>>

\* async_fib, lines 176-177: i < n - 2: auto c{ async_add(a, b) }
FibSpawn(w) ==
    /\ pc[w] = "loop"
    /\ fib[next[w]].i < arg[next[w]][1] - 2
    /\ ntasks + 1 \in StateIds
    /\ NewTask(w, ntasks + 1, "add", <<fib[next[w]].a, fib[next[w]].b>>, next[w])
    /\ fib' = [fib EXCEPT ![next[w]].c = ntasks + 1]
    /\ pc' = [pc EXCEPT ![w] = "sched"]
    /\ UNCHANGED <<N, out, next, stop, mutex, queue, tdVars, slot, execLog,
                   pushes, writes, seen, nullResume, assertFailed>>

\* Faulty variant: get_result() gives up with a failure when the slot is not
\* written yet.
FibGetGivesUp(w) ==
    LET t == next[w]
        c == fib[t].c
    IN  /\ pc[w] = "get"
        /\ seen' = [seen EXCEPT ![c] = @ \cup {<<w, Exc(c)>>}]
        /\ handles' = [handles EXCEPT ![c] = @ \ {w}]
        /\ fib' = [fib EXCEPT ![t].c = 0]
        /\ slot' = [slot EXCEPT ![t] = PromiseSet(@, Exc(c))]
        /\ writes' = [writes EXCEPT ![t] = Append(@, Exc(c))]
        /\ assertFailed' = (assertFailed \/ GetStateFails(t))
        /\ pc' = [pc EXCEPT ![w] = "final"]
        /\ UNCHANGED <<N, out, next, stop, mutex, queue, cpc, ctask, tdVars,
                       ntasks, kind, arg, parent, handle, before, execLog,
                       pushes, nullResume>>

\* async_fib, lines 178-180: a = b; b = c.get_result() blocks until c's slot
\* is written; a value ends the round (c is destroyed, ++i), a failure is
\* re-raised, leaves the body and reaches unhandled_exception.
FibGet(w) ==
    LET t == next[w]
        c == fib[t].c
        o == FutureGet(slot[c])
    IN  /\ pc[w] = "get"
        /\ Ready(slot[c])
        /\ seen' = [seen EXCEPT ![c] = @ \cup {<<w, o>>}]
        /\ handles' = [handles EXCEPT ![c] = @ \ {w}]
        /\ IF o[1] = "val"
           THEN /\ fib' = [fib EXCEPT ![t] = [a |-> @.b, b |-> o[2],
                                                i |-> @.i + 1, c |-> 0]]
                /\ slot' = [slot EXCEPT ![c] = AfterGet(@)]
                /\ pc' = [pc EXCEPT ![w] = "loop"]
                /\ UNCHANGED <<writes, assertFailed>>
           ELSE /\ fib' = [fib EXCEPT ![t].c = 0]
                /\ slot' = [slot EXCEPT ![c] = AfterGet(@),
                                        ![t] = PromiseSet(@, o)]
                /\ writes' = [writes EXCEPT ![t] = Append(@, o)]
                /\ assertFailed' = (assertFailed \/ GetStateFails(t))
                /\ pc' = [pc EXCEPT ![w] = "final"]
        /\ UNCHANGED <<N, out, next, stop, mutex, queue, cpc, ctask, tdVars,
                       ntasks, kind, arg, parent, handle, before, execLog,
                       pushes, nullResume>>

\* Faulty variant: the loop of async_fib ends with co_return a.
FibReturnA(w) ==
    /\ pc[w] = "loop"
    /\ fib[next[w]].i >= arg[next[w]][1] - 2
    /\ Complete(w, next[w], Val(fib[next[w]].a))
    /\ UNCHANGED <<N, out, next, stop, mutex, queue, cpc, ctask, tdVars,
                   taskVars, handles, execLog, pushes, seen, nullResume>>

\* async_fib, lines 176, 183: the loop is over: co_return b
FibReturn(w) ==
    /\ pc[w] = "loop"
    /\ fib[next[w]].i >= arg[next[w]][1] - 2
    /\ Complete(w, next[w], Val(fib[next[w]].b))
    /\ UNCHANGED <<N, out, next, stop, mutex, queue, cpc, ctask, tdVars,
                   taskVars, handles, execLog, pushes, seen, nullResume>>

\* Faulty variant: final_suspend leaves handle_ as it is.
FinalSuspendKeepsHandle(w) ==
    /\ pc[w] = "final"
    /\ assertFailed' = (assertFailed \/ GetStateFails(next[w]))
    /\ next' = [next EXCEPT ![w] = 0]
    /\ pc' = [pc EXCEPT ![w] = "lock"]
    /\ UNCHANGED <<N, out, stop, mutex, queue, cpc, ctask, tdVars, taskVars,
                   slot, handles, execLog, pushes, writes, seen, nullResume>>

\* Faulty variant: final_suspend hands the finished state to the pool again.
FinalSuspendRequeue(w) ==
    /\ pc[w] = "final"
    /\ assertFailed' = (assertFailed \/ GetStateFails(next[w]))
    /\ handle' = [handle EXCEPT ![next[w]] = "null"]
    /\ queue' = Append(queue, next[w])
    /\ pushes' = [pushes EXCEPT ![next[w]] = @ + 1]
    /\ next' = [next EXCEPT ![w] = 0]
    /\ pc' = [pc EXCEPT ![w] = "lock"]
    /\ UNCHANGED <<N, out, stop, mutex, cpc, ctask, tdVars, ntasks, kind, arg,
                   parent, fib, before, slot, handles, execLog, writes, seen,
                   nullResume>>

\* lines 141-144: final_suspend sets handle_ to nullptr and does not suspend:
\* the frame is destroyed, resume() and execute() return, `next` is released
\* at the end of the loop body and the worker is back at line 54.
FinalSuspend(w) ==
    /\ pc[w] = "final"
    /\ assertFailed' = (assertFailed \/ GetStateFails(next[w]))
    /\ handle' = [handle EXCEPT ![next[w]] = "null"]
    /\ next' = [next EXCEPT ![w] = 0]
    /\ pc' = [pc EXCEPT ![w] = "lock"]
    /\ UNCHANGED <<N, out, stop, mutex, queue, cpc, ctask, tdVars, ntasks,
                   kind, arg, parent, fib, before, slot, handles, execLog,
                   pushes, writes, seen, nullResume>>

\* ------------------------------------------------------ the task handles
\* Thread th, outside the pool and not inside a call, owns a task<T> object of
\* task t.
Holds(th, t) ==
    /\ cpc[th] = "idle"
    /\ th \in handles[t]

\* task<T>::get_result, lines 94-96 and 117-119: shared_future_.get() blocks
\* until the slot is written and yields what it holds.
GetResult(th, t) ==
    /\ Holds(th, t)
    /\ Ready(slot[t])
    /\ seen' = [seen EXCEPT ![t] = @ \cup {<<th, FutureGet(slot[t])>>}]
    /\ slot' = [slot EXCEPT ![t] = AfterGet(@)]
    /\ UNCHANGED <<N, out, poolVars, cpc, ctask, tdVars, taskVars, handles,
                   execLog, pushes, writes, nullResume, assertFailed>>

\* Thread th copies its task<T> object of task t for thread r: one more
\* owner of the state.
CopyHandle(th, r, t) ==
    /\ Holds(th, t)
    /\ r \notin handles[t]
    /\ handles' = [handles EXCEPT ![t] = @ \cup {r}]
    /\ UNCHANGED <<N, out, poolVars, cpc, ctask, tdVars, taskVars, slot,
                   execLog, pushes, writes, seen, nullResume, assertFailed>>

\* Thread th destroys its task<T> object of task t.
DropHandle(th, t) ==
    /\ Holds(th, t)
    /\ handles' = [handles EXCEPT ![t] = @ \ {th}]
    /\ UNCHANGED <<N, out, poolVars, cpc, ctask, tdVars, taskVars, slot,
                   execLog, pushes, writes, seen, nullResume, assertFailed>>

\* ---------------------------------------------------------- test_async_fib
\* line 187: for (int i = 1; i < 10; ++i)
LastFib == 9

\* The state of task t is destroyed (no task<T> object, queue entry or worker
\* refers to it) and its storage is given back, to be handed out again by the
\* next make_shared.  Storage is handed out and given back in stack order.
Release(t) ==
    /\ t = ntasks
    /\ ~Alive(t)
    /\ ntasks' = t - 1
    /\ kind' = [kind EXCEPT ![t] = "none"]
    /\ arg' = [arg EXCEPT ![t] = <<0, 0>>]
    /\ parent' = [parent EXCEPT ![t] = 0]
    /\ handle' = [handle EXCEPT ![t] = "none"]
    /\ slot' = [slot EXCEPT ![t] = None]
    /\ fib' = [fib EXCEPT ![t] = NoFib]
    /\ execLog' = [execLog EXCEPT ![t] = <<>>]
    /\ pushes' = [pushes EXCEPT ![t] = 0]
    /\ writes' = [writes EXCEPT ![t] = <<>>]
    /\ seen' = [seen EXCEPT ![t] = {}]
    /\ before' = [u \in StateIds |-> IF u = t THEN {} ELSE before[u] \ {t}]
    /\ UNCHANGED <<N, out, poolVars, cpc, ctask, tdVars, handles, nullResume,
                   assertFailed>>

\* line 188: auto fib_task{ async_fib(i) }, with i the number of the round;
\* there is storage left for the task and for a nested one.
TestCreate(c) ==
    /\ cpc[c] = "idle"
    /\ tdpc = "none"
    /\ \A t \in StateIds : c \notin handles[t]
    /\ Len(out) < LastFib
    /\ ntasks + 2 <= MaxTasks
    /\ NewTask(c, ntasks + 1, "fib", <<Len(out) + 1, 0>>, 0)
    /\ UNCHANGED <<N, out, poolVars, tdVars, slot, fib, execLog, pushes,
                   writes, seen, nullResume, assertFailed>>

\* lines 189-190: fib_task.get_result() blocks until the slot is written;
\* the value is printed, fib_task is destroyed and the round is over.
TestGet(c) ==
    \E t \in TaskIds :
        /\ Holds(c, t)
        /\ Ready(slot[t])
        /\ FutureGet(slot[t])[1] = "val"
        /\ out' = Append(out, FutureGet(slot[t])[2])
        /\ seen' = [seen EXCEPT ![t] = @ \cup {<<c, FutureGet(slot[t])>>}]
        /\ slot' = [slot EXCEPT ![t] = AfterGet(@)]
        /\ handles' = [handles EXCEPT ![t] = @ \ {c}]
        /\ UNCHANGED <<N, poolVars, cpc, ctask, tdVars, taskVars, execLog,
                       pushes, writes, nullResume, assertFailed>>

\* ------------------------------------------- thread_pool::~thread_pool
\* The pool is a function-local static: its destructor runs at process exit.
StartTeardown ==
    /\ tdpc = "none"
    /\ \A c \in Callers : cpc[c] = "idle"
    /\ tdpc' = "stop"
    /\ tdi' = 1
    /\ UNCHANGED <<N, out, poolVars, cpc, ctask, taskVars, slot, handles,
                   execLog, pushes, writes, seen, nullResume, assertFailed>>

\* Faulty variant: request_stop() also ends a worker that is inside execute().
RequestStopCancels ==
    /\ tdpc = "stop"
    /\ stop' = [stop EXCEPT ![tdi] = TRUE]
    /\ pc' = IF pc[tdi] \in {"waiting", "woken"} THEN NotifyAll(pc)
             ELSE IF pc[tdi] \in {"body", "sched", "get", "final"}
                  THEN [pc EXCEPT ![tdi] = "exited"]
                  ELSE pc
    /\ IF tdi < N
       THEN tdi' = tdi + 1 /\ tdpc' = tdpc
       ELSE tdi' = 1 /\ tdpc' = "join"
    /\ UNCHANGED <<N, out, next, mutex, queue, cpc, ctask, taskVars, slot,
                   handles, execLog, pushes, writes, seen, nullResume,
                   assertFailed>>

\* line 49: t.request_stop() on thread tdi; the stop_callback of a wait in
\* progress on that thread's token calls notify_all.
RequestStop ==
    /\ tdpc = "stop"
    /\ stop' = [stop EXCEPT ![tdi] = TRUE]
    /\ pc' = IF pc[tdi] \in {"waiting", "woken"} THEN NotifyAll(pc) ELSE pc
    /\ IF tdi < N
       THEN tdi' = tdi + 1 /\ tdpc' = tdpc
       ELSE tdi' = 1 /\ tdpc' = "join"
    /\ UNCHANGED <<N, out, next, mutex, queue, cpc, ctask, taskVars, slot,
                   handles, execLog, pushes, writes, seen, nullResume,
                   assertFailed>>

\* line 50: t.join() returns once thread tdi has left run_thread.
Join ==
    /\ tdpc = "join"
    /\ pc[tdi] = "exited"
    /\ IF tdi < N
       THEN tdi' = tdi + 1 /\ tdpc' = tdpc
       ELSE tdi' = 0 /\ tdpc' = "done"
    /\ UNCHANGED <<N, out, poolVars, cpc, ctask, taskVars, slot, handles,
                   execLog, pushes, writes, seen, nullResume, assertFailed>>

\* ------------------------------------------------------- specifications
Worker(w) ==
    \/ LockTake(w) \/ LockWait(w) \/ LockStopped(w)
    \/ Spurious(w) \/ WakeReturn(w) \/ WakeRewait(w) \/ Break(w) \/ NoStop(w)
    \/ Take(w) \/ Execute(w)

Body(w) ==
    \/ BodyAdd(w) \/ BodyRaise(w) \/ FibBase(w) \/ FibInit(w) \/ FibSpawn(w)
    \/ FibGet(w) \/ FibReturn(w) \/ FinalSuspend(w)

Schedule(th) == SchedLock(th) \/ SchedPush(th) \/ SchedNotify(th)

Caller(c) ==
    \/ \E in \in AddInputs : CreateAdd(c, in)
    \/ \E n \in FibInputs : CreateFib(c, n)
    \/ CreateRaise(c)
    \/ \E t \in TaskIds : GetResult(c, t)

Reader(r) == \E t \in TaskIds : GetResult(r, t)

Owner(th) ==
    \E t \in TaskIds :
        \/ \E r \in Callers \cup Readers : CopyHandle(th, r, t)
        \/ DropHandle(th, t)

Teardown == StartTeardown \/ RequestStop \/ Join

Next ==
    \/ \E w \in Workers : Worker(w) \/ Body(w)
    \/ \E th \in Threads : Schedule(th)
    \/ \E c \in Callers : Caller(c)
    \/ Teardown

Spec == Init /\ [][Next]_vars

\* ---------------------------------------- runs without a stop request
\* run_thread while no stop is requested.
Serve(w) ==
    \/ LockTake(w) \/ LockWait(w) \/ WakeReturn(w) \/ WakeRewait(w)
    \/ NoStop(w) \/ Take(w) \/ Execute(w)

NextRun ==
    \/ \E w \in Workers : Serve(w) \/ Spurious(w) \/ Body(w)
    \/ \E th \in Threads : Schedule(th)
    \/ \E c \in Callers : Caller(c)

\* A thread that can take its next step takes it: a worker in run_thread, in a
\* task body or in a nested schedule(), the caller in schedule().  Nothing
\* obliges a spurious wake-up, a new call of a coroutine or a retrieval.
Step(w) == Serve(w) \/ Body(w) \/ Schedule(w)

FairRun ==
    /\ \A w \in Workers : WF_vars(Step(w))
    /\ \A c \in Callers : WF_vars(Schedule(c))

SpecRun == Init /\ [][NextRun]_vars /\ FairRun

\* Runs without a stop request in which a second thread retrieves results
\* too and the task<T> objects are copied between the two threads and
\* destroyed.
NextShared ==
    \/ NextRun
    \/ \E r \in Readers : Reader(r)
    \/ \E th \in Callers \cup Readers : Owner(th)

SpecShared == Init /\ [][NextShared]_vars

\* The same with independent task bodies only (none waits on another task),
\* and a caller that retrieves every result.
NextIndep ==
    \/ \E w \in Workers : Serve(w) \/ Spurious(w)
    \/ \E w \in Workers : BodyAdd(w) \/ BodyRaise(w) \/ FinalSuspend(w)
    \/ \E th \in Threads : Schedule(th)
    \/ \E c \in Callers :
          \/ \E in \in AddInputs : CreateAdd(c, in)
          \/ CreateRaise(c)
          \/ \E t \in TaskIds : GetResult(c, t)

IndepStep(w) ==
    Serve(w) \/ BodyAdd(w) \/ BodyRaise(w) \/ FinalSuspend(w)

FairIndep ==
    /\ \A w \in Workers : WF_vars(IndepStep(w))
    /\ \A c \in Callers : WF_vars(Schedule(c))
    /\ \A c \in Callers, t \in TaskIds : WF_vars(GetResult(c, t))

SpecIndep == Init /\ [][NextIndep]_vars /\ FairIndep

\* Runs without a stop request in which the caller destroys its task<T>
\* objects at any time, before the task has run too, and retrieves nothing.
NextDrop ==
    \/ \E w \in Workers : Serve(w) \/ Spurious(w) \/ Body(w)
    \/ \E th \in Threads : Schedule(th)
    \/ \E c \in Callers :
          \/ \E in \in AddInputs : CreateAdd(c, in)
          \/ \E n \in FibInputs : CreateFib(c, n)
          \/ CreateRaise(c)
          \/ \E t \in TaskIds : DropHandle(c, t)

SpecDrop == Init /\ [][NextDrop]_vars

\* ------------------------------------------------- runs with a teardown
\* A thread that can take its next step takes it, a stopped worker included;
\* once ~thread_pool has started it goes through its two loops.
StopStep(w) == Step(w) \/ LockStopped(w) \/ Break(w)

FairStop ==
    /\ \A w \in Workers : WF_vars(StopStep(w))
    /\ \A c \in Callers : WF_vars(Schedule(c))
    /\ WF_vars(RequestStop \/ Join)

\* The caller creates tasks and leaves them to the pool; what it retrieves
\* has no effect on the workers or on ~thread_pool.
NextStop ==
    \/ \E w \in Workers : Worker(w) \/ Body(w)
    \/ \E th \in Threads : Schedule(th)
    \/ \E c \in Callers :
          \/ \E in \in AddInputs : CreateAdd(c, in)
          \/ \E n \in FibInputs : CreateFib(c, n)
          \/ CreateRaise(c)
    \/ Teardown

SpecStop == Init /\ [][NextStop]_vars /\ FairStop

\* ------------------------------------------------ main: test_async_fib
\* The program as main runs it: one caller thread calls async_fib(i) and
\* retrieves its result, for i = 1..LastFib in turn.
FibBody(w) ==
    \/ BodyAdd(w) \/ FibBase(w) \/ FibInit(w) \/ FibSpawn(w) \/ FibGet(w)
    \/ FibReturn(w) \/ FinalSuspend(w)

NextFib ==
    \/ \E w \in Workers : Serve(w) \/ Spurious(w) \/ FibBody(w)
    \/ \E th \in Threads : Schedule(th)
    \/ \E c \in Callers : TestCreate(c) \/ TestGet(c)
    \/ \E t \in StateIds : Release(t)

FairFib ==
    /\ \A w \in Workers : WF_vars(Serve(w) \/ FibBody(w) \/ Schedule(w))
    /\ \A c \in Callers : WF_vars(Schedule(c) \/ TestCreate(c) \/ TestGet(c))
    /\ \A t \in StateIds : WF_vars(Release(t))

SpecFib == Init /\ [][NextFib]_vars /\ FairFib

\* ------------------------------------ runs of bodies with nested tasks
\* A caller calls async_fib several times without waiting for a result, so
\* that as many async_fib bodies as there are workers can run together.
NextNested ==
    \/ \E w \in Workers : Serve(w) \/ Spurious(w) \/ FibBody(w)
    \/ \E th \in Threads : Schedule(th)
    \/ \E c \in Callers : \E n \in FibInputs : CreateNested(c, n)

SpecNested == Init /\ [][NextNested]_vars

TypeOK ==
    /\ mutex \in {0} \cup Threads
    /\ N \in PoolSizes
    /\ \A t \in StateIds : handles[t] \subseteq Threads
    /\ ntasks \in 0..Cardinality(StateIds)


\* ------------------------------------------------------------ the claims
\* What a task's body computes from its own inputs.
RECURSIVE FibVal(_)
FibVal(n) == IF n <= 2 THEN 1 ELSE FibVal(n - 1) + FibVal(n - 2)

Expected(t) ==
    CASE kind[t] = "add" -> Val(arg[t][1] + arg[t][2])
      [] kind[t] = "fib" -> Val(FibVal(arg[t][1]))
      [] kind[t] = "raise" -> Exc(t)
      [] OTHER -> None

Running(t) == \E w \in Workers : next[w] = t
Started(t) == execLog[t] # <<>>
Returned(t) == Started(t) /\ ~Running(t)
Dequeued(t) == pushes[t] > 0 /\ ~InQueue(t)
BodyEnded(t) ==
    handle[t] = "null" \/ \E w \in Workers : next[w] = t /\ pc[w] = "final"
\* The thread that called the coroutine of t.
Creator(t) ==
    IF parent[t] = 0 THEN CHOOSE c \in Callers : TRUE
    ELSE execLog[parent[t]][1]

\* C1: a work item passed to schedule() is executed at most once, is held by
\* at most one worker, and is executed only after schedule() has pushed it.
C1_ExecutedOnce ==
    \A t \in TaskIds :
        /\ Len(execLog[t]) <= 1
        /\ Cardinality({w \in Workers : next[w] = t}) <= 1
        /\ (Started(t) \/ Running(t)) => pushes[t] >= 1

\* Two items have been executed, each by another worker of a pool of two.
C1_Witness ==
    \E t, u \in TaskIds : execLog[t] = <<1>> /\ execLog[u] = <<2>>

\* Every live worker is inside a task body, blocked in get_result() on a task
\* whose slot is not written.
AllBlocked ==
    \A w \in Live : pc[w] = "get" /\ ~Ready(slot[fib[next[w]].c])

\* C2 as stated: with no stop requested and fair scheduling, every queued
\* item is eventually dequeued and executed.
C2_EventuallyExecuted ==
    \A t \in TaskIds : InQueue(t) ~> Started(t)

\* C2 amended: every queued item is eventually dequeued and executed, or all
\* N workers end up blocked in get_result() inside task bodies.
C2_ServedUnlessAllBlocked ==
    \A t \in TaskIds : InQueue(t) ~> (Started(t) \/ AllBlocked)

\* A nested task has been executed while its parent's worker was blocked.
C2_Witness ==
    \E t \in TaskIds : parent[t] # 0 /\ Started(t) /\ pc[execLog[parent[t]][1]] = "get"

\* C3: the result slot of a task is written at most once, and exactly once
\* when the body has run to its end; the slot holds what was written.
C3_WrittenOnce ==
    \A t \in TaskIds :
        /\ Len(writes[t]) <= 1
        /\ BodyEnded(t) => Len(writes[t]) = 1
        /\ slot[t] = (IF writes[t] = <<>> THEN None ELSE writes[t][1])

\* One finished task holds a value and another a failure.
C3_Witness ==
    \E t, u \in TaskIds :
        /\ handle[t] = "null" /\ writes[t] = <<Expected(t)>> /\ kind[t] = "fib"
        /\ handle[u] = "null" /\ writes[u] = <<Exc(u)>>

\* C4: a retrieval returns only after the slot was written, and with exactly
\* the outcome that was written.
C4_GetAfterWrite ==
    \A t \in TaskIds : \A p \in seen[t] :
        writes[t] # <<>> /\ p[2] = writes[t][1]

\* A value has been retrieved from one task and a failure from another.
C4_Witness ==
    \E t, u \in TaskIds :
        /\ \E p \in seen[t] : p[2][1] = "val"
        /\ \E q \in seen[u] : q[2][1] = "exc"

\* C5: all retrievals of one task's result, from whichever thread, observe the
\* same outcome, and it is still the one in the slot.
C5_SameOutcome ==
    \A t \in TaskIds : \A p, q \in seen[t] : p[2] = q[2] /\ p[2] = slot[t]

\* Two threads have retrieved the result of the same task, whose handle has
\* been copied.
C5_Witness ==
    \E t \in TaskIds :
        /\ handles[t] = Callers \cup Readers
        /\ \E p, q \in seen[t] : p[1] # q[1]

\* C6: a task is resumed at most once, never through a null handle, and a
\* completed task is neither in the queue nor pushed a second time.
C6_NoResumeAfterDone ==
    /\ ~nullResume
    /\ \A t \in TaskIds :
          /\ Len(execLog[t]) <= 1
          /\ pushes[t] <= 1
          /\ handle[t] = "null" => ~InQueue(t) /\ ~Running(t)

\* A task has completed while another item is queued.
C6_Witness ==
    \E t \in TaskIds : handle[t] = "null" /\ queue # <<>>

\* C7: with one worker, if schedule() of A returned before that of B began,
\* A is dequeued before B and A's execute() has returned when B's starts.
C7_Fifo ==
    N = 1 =>
        \A A, B \in TaskIds :
            (A \in before[B] /\ (Dequeued(B) \/ Started(B) \/ Running(B)))
                => /\ Dequeued(A)
                   /\ Started(B) => Returned(A)

\* With one worker, A was scheduled before B and both have been executed.
C7_Witness ==
    /\ N = 1
    /\ \E A, B \in TaskIds : A \in before[B] /\ Returned(A) /\ Returned(B)

\* C8: creating a task pushes its state exactly once, before the call
\* returns; the body runs only on a pool worker that has dequeued the item,
\* never on the creating thread; the creating call never waits for anything
\* but the mutex.
C8_ScheduledOnce ==
    /\ \A t \in TaskIds :
          /\ pushes[t] <= 1
          /\ SchedDone(t) => pushes[t] = 1
          /\ Started(t) => Dequeued(t)
          /\ \A k \in 1..Len(execLog[t]) :
                execLog[t][k] \in Live /\ execLog[t][k] # Creator(t)
    /\ \A th \in Threads :
          /\ cpc[th] = "lock" /\ mutex = 0 => ENABLED SchedLock(th)
          /\ cpc[th] = "push" => ENABLED SchedPush(th)
          /\ cpc[th] = "notify" => ENABLED SchedNotify(th)

\* The creating call of one task has returned and its body has not run yet,
\* while a worker has run the body of another.
C8_Witness ==
    \E t, u \in TaskIds :
        /\ parent[t] = 0 /\ SchedDone(t) /\ InQueue(t)
        /\ Started(u)

\* C9: the failure of a task body is stored in that task's slot and is what
\* every retriever of that task gets; a worker leaves its loop only on a stop
\* request; every other task's outcome is what its own body computes.
C9_FailureIsolated ==
    /\ \A t \in TaskIds :
          kind[t] = "raise" =>
              /\ Returned(t) => slot[t] = Exc(t)
              /\ \A p \in seen[t] : p[2] = Exc(t)
    /\ \A w \in Live : pc[w] = "exited" => stop[w]
    /\ \A u \in TaskIds :
          (kind[u] # "raise" /\ slot[u] # None) => slot[u] = Expected(u)

\* The single worker ran a failing task, the failure was retrieved, and the
\* same worker then ran the next task, whose value was retrieved.
C9_Witness ==
    /\ N = 1
    /\ \E t, u \in TaskIds :
          /\ kind[t] = "raise" /\ t \in before[u]
          /\ \E p \in seen[t] : p[2] = Exc(t)
          /\ kind[u] = "add" /\ Returned(u)
          /\ \E q \in seen[u] : q[2] = Expected(u)

\* C10: with independent tasks, for every pool size and interleaving without
\* shutdown, every created task's result is eventually retrieved by the
\* caller, and every retrieval yields what the body computes from its inputs
\* (a + b for async_add).
C10_FanOut ==
    /\ \A t \in TaskIds : [](\A p \in seen[t] : p[2] = Expected(t))
    /\ \A t \in TaskIds :
          (kind[t] # "none") ~> (\E p \in seen[t] : p[1] \in Callers)

\* A pool of two has served MaxTasks async_add tasks, all retrieved.
C10_Witness ==
    /\ N = 2
    /\ \A t \in TaskIds :
          kind[t] = "add" /\ seen[t] # {} /\ handle[t] = "null"

\* ------------------------------------------------------- after a stop
\* ~thread_pool has called request_stop() on every worker.
StopRequested == tdpc \in {"join", "done"}

\* C11 as stated: once teardown has requested stop, no worker dequeues a
\* further work item, so every item queued at that moment is never executed.
C11_NoDequeueAfterStop ==
    [][StopRequested => \A w \in Workers : next'[w] \in {next[w], 0}]_vars

\* The body of task t waits on no nested task.
Leaf(t) == kind[t] \in {"add", "raise"} \/ (kind[t] = "fib" /\ Rounds(arg[t][1]) = 0)

\* C12 as stated: every task that is being executed when stop is requested
\* eventually has its result slot written, whatever its body.
C12_RunningCompletes ==
    \A t \in TaskIds : (StopRequested /\ Running(t)) ~> Ready(slot[t])

\* C12 amended: every task that is being executed when stop is requested and
\* whose body waits on no nested task eventually has its result slot written,
\* and no worker leaves its loop while it is executing an item.
C12_LeafRunningCompletes ==
    /\ [](\A w \in Workers : pc[w] = "exited" => next[w] = 0)
    /\ \A t \in TaskIds :
          (StopRequested /\ Running(t) /\ Leaf(t)) ~> Ready(slot[t])

\* Stop has been requested of every worker, and a worker that is still inside
\* execute() has written the result of its task.
C12_Witness ==
    \E w \in Workers, t \in TaskIds :
        /\ StopRequested /\ next[w] = t /\ Leaf(t)
        /\ pc[w] = "final" /\ Ready(slot[t])

\* The first LastFib terms of the sequence 1, 1, 2, 3, 5, ...
FibSeq == [n \in 1..LastFib |-> FibVal(n)]

\* A worker that has dequeued the nested task t and has not yet written its
\* result is another one than the worker of the body that created t, and that
\* worker is inside that body, in the nested call or blocked in get_result().
NestedElsewhere(t) ==
    \A w \in Workers :
        (next[w] = t /\ pc[w] \in {"exec", "body"}) =>
            \E v \in Workers \ {w} :
                next[v] = parent[t] /\ pc[v] \in {"sched", "get"}

\* C13: with at least two workers and one caller that calls async_fib(i) and
\* retrieves its result before the next call, for i = 1..9, every retrieval
\* returns and the values are 1,1,2,3,5,8,13,21,34 in that order; each nested
\* async_add(a, b) runs on another worker than its async_fib and yields a + b.
C13_SequentialFib ==
    /\ [](out = SubSeq(FibSeq, 1, Len(out)))
    /\ [](\A t \in StateIds : parent[t] # 0 =>
            /\ NestedElsewhere(t)
            /\ Ready(slot[t]) => slot[t] = Val(arg[t][1] + arg[t][2]))
    /\ (N >= 2) ~> (out = <<1, 1, 2, 3, 5, 8, 13, 21, 34>>)

\* All nine results are printed, the last one computed from 13 + 21.
C13_Witness ==
    /\ out = <<1, 1, 2, 3, 5, 8, 13, 21, 34>>
    /\ \E t \in StateIds : kind[t] = "fib" /\ fib[t].a = 21 /\ fib[t].b = 34

\* Worker w leaves run_thread in this step.
Exits(w) == pc[w] # "exited" /\ pc'[w] = "exited"

\* C14 as stated: a worker leaves its loop only when stop has been requested
\* for it and the queue is empty at that moment.
C14_ExitOnlyWhenEmpty ==
    [][\A w \in Workers : Exits(w) => (stop[w] /\ queue = <<>>)]_vars

\* C14 amended: a worker leaves its loop only when stop has been requested
\* for it, straight after cva_.wait has returned, with the mutex held and no
\* item in hand; the queue need not be empty.
C14_ExitOnlyWhenStopped ==
    [][\A w \in Workers :
          Exits(w) => (stop[w] /\ pc[w] = "stopchk" /\ mutex = w /\ next[w] = 0)]_vars

\* cva_.wait has returned to a worker with the mutex held, stop is requested
\* for it and an item is queued: the worker is about to break.
C14_Witness ==
    \E w \in Workers :
        pc[w] = "stopchk" /\ mutex = w /\ stop[w] /\ queue # <<>>

\* The threads that are between locking mutex_ and unlocking it: a worker
\* after cva_.wait or before the pop, a thread inside schedule()'s block.
InCritical ==
    {w \in Workers : pc[w] \in {"stopchk", "take"}}
        \cup {th \in Threads : cpc[th] = "push"}

\* Worker w is between unlocking the mutex after the pop and the return of
\* execute().
Executing(w) == pc[w] \in {"exec", "body", "loop", "sched", "get", "final"}

\* The queue changes only by the hand of the thread that holds the mutex: a
\* push in its schedule() or a pop in its run_thread.
QueueUnderMutex ==
    queue' # queue =>
        /\ mutex # 0
        /\ \/ cpc[mutex] = "push" /\ cpc'[mutex] = "notify"
           \/ mutex \in Workers /\ pc[mutex] = "take" /\ pc'[mutex] = "exec"

\* C15 as stated: the queue is pushed to or popped from only by the holder of
\* the mutex, at most one thread holds the mutex, and no worker holds the
\* mutex while it is executing an item.
C15_MutexNeverInExecute ==
    /\ [][QueueUnderMutex]_vars
    /\ [](InCritical = IF mutex = 0 THEN {} ELSE {mutex})
    /\ [](\A w \in Workers : Executing(w) => mutex # w)

\* C15 amended: the queue is pushed to or popped from only by the holder of
\* the mutex, at most one thread holds the mutex, and a worker that is
\* executing an item holds the mutex only inside a nested schedule() that
\* the task body calls.
C15_MutexDiscipline ==
    /\ [][QueueUnderMutex]_vars
    /\ [](InCritical = IF mutex = 0 THEN {} ELSE {mutex})
    /\ [](\A w \in Workers : (Executing(w) /\ mutex = w) =>
                                (pc[w] = "sched" /\ cpc[w] = "push"))

\* A worker inside an async_fib body holds the mutex in the schedule() of the
\* nested task while the other worker waits to lock it.
C15_Witness ==
    \E w, v \in Workers :
        /\ pc[w] = "sched" /\ cpc[w] = "push" /\ mutex = w
        /\ pc[v] = "woken"

\* C16 as stated: once stop is requested for a worker blocked in cva_.wait it
\* wakes and leaves its loop, and once stop is requested of all workers and
\* none is executing an item, ~thread_pool joins them all and returns.
C16_StopTerminates ==
    /\ \A w \in Workers :
          (stop[w] /\ pc[w] \in {"waiting", "woken"}) ~> (pc[w] = "exited")
    /\ (StopRequested /\ \A w \in Workers : ~Executing(w)) ~> (tdpc = "done")

\* Where task t is in its life.
Phase(t) ==
    CASE kind[t] = "none" -> "none"
      [] kind[t] # "none" /\ pushes[t] = 0 -> "Created"
      [] InQueue(t) -> "Scheduled"
      [] Dequeued(t) /\ (Running(t) \/ ~Started(t)) -> "Running"
      [] Returned(t) /\ Dequeued(t) /\ slot[t][1] = "val" -> "Completed"
      [] Returned(t) /\ Dequeued(t) /\ slot[t][1] = "exc" -> "Failed"
      [] OTHER -> "unknown"

PhaseSteps ==
    {<<"none", "Created">>, <<"Created", "Scheduled">>,
     <<"Scheduled", "Running">>, <<"Running", "Completed">>,
     <<"Running", "Failed">>}

\* C17: once a worker has returned from execute() on task t, the slot of t
\* holds a value or a failure and its handle is null; neither changes again,
\* and a task moves only Created -> Scheduled -> Running -> Completed or
\* Failed.
C17_TerminalAbsorbing ==
    /\ [](\A t \in TaskIds : Returned(t) => (Ready(slot[t]) /\ handle[t] = "null"))
    /\ [][\A t \in TaskIds :
            /\ Returned(t) => (Returned(t)' /\ slot'[t] = slot[t]
                                /\ handle'[t] = handle[t])
            /\ Phase(t)' # Phase(t) => <<Phase(t), Phase(t)'>> \in PhaseSteps]_vars

\* One task has completed and another has failed, and both were retrieved
\* afterwards.
C17_Witness ==
    \E t, u \in TaskIds :
        /\ Phase(t) = "Completed" /\ seen[t] # {}
        /\ Phase(u) = "Failed" /\ seen[u] # {}

\* C18: every get_state() of the promise (in await_suspend, return_value,
\* unhandled_exception and final_suspend) finds the state alive, so the
\* assert never fails, also when no task<T> object is left before the task
\* runs: the state of a queued or dequeued item is owned by the queue entry
\* or by the worker that executes it.
C18_StateAlive ==
    /\ ~assertFailed
    /\ \A t \in TaskIds :
          (InQueue(t) \/ Running(t)) => ~GetStateFails(t)

\* The task<T> objects of a task were all destroyed while its item was
\* queued; a worker has run its body and is about to enter final_suspend.
C18_Witness ==
    \E t \in TaskIds, w \in Workers :
        /\ handles[t] = {} /\ seen[t] = {}
        /\ next[w] = t /\ pc[w] = "final" /\ Ready(slot[t])
        /\ ~assertFailed

\* Every worker of the pool is inside a task body, blocked in get_result() on
\* a nested task whose item is in the queue.
Deadlocked ==
    \A w \in Live : pc[w] = "get" /\ InQueue(fib[next[w]].c)

\* The tasks in flight whose body retrieves the result of a nested task.
NestedInFlight ==
    {t \in StateIds : kind[t] = "fib" /\ Rounds(arg[t][1]) > 0 /\ ~Ready(slot[t])}

\* C19: once all N workers are blocked in get_result() on tasks whose items
\* are queued, no item is dequeued and no get_result() returns any more; that
\* state is reached with N async_fib bodies running together, and is not
\* reached while fewer than N tasks with a nested retrieval are in flight.
C19_NestedDeadlock ==
    /\ [][Deadlocked =>
            /\ Deadlocked'
            /\ pc' = pc /\ next' = next /\ slot' = slot
            /\ SubSeq(queue', 1, Len(queue)) = queue]_vars
    /\ [](Cardinality(NestedInFlight) < N => ~Deadlocked)

\* Both workers of a pool of two are blocked in get_result(), each on a
\* nested async_add that is queued.
C19_Witness ==
    /\ N = 2
    /\ Deadlocked
    /\ Cardinality(NestedInFlight) = N
    /\ Len(queue) = 2

\* C20: a worker that is about to take queue_.front() holds the mutex and the
\* queue is non-empty; a worker to which cva_.wait has returned holds the
\* mutex, and stop is requested for it or the queue is non-empty.
C20_FrontOnlyWhenNonEmpty ==
    \A w \in Workers :
        /\ pc[w] = "take" => (mutex = w /\ queue # <<>>)
        /\ pc[w] = "stopchk" => (mutex = w /\ (stop[w] \/ queue # <<>>))

\* In a pool of two, a worker is about to take the only item after the wait,
\* while the other worker was woken too and stop is already requested for it.
C20_Witness ==
    \E w, v \in Workers :
        /\ pc[w] = "take" /\ ~stop[w] /\ Len(queue) = 1
        /\ pc[v] = "woken" /\ stop[v]

====
